---- MODULE Spec2Model ----
(***************************************************************************)
(* Model of data_collection_tools.py: the exchange scraper                 *)
(* (scrape_exchanges, _format_exchange_data), the exchange filter          *)
(* (filter_top_exchange_addresses) and the transaction history fetcher     *)
(* (get_txn_history).                                                      *)
(*                                                                         *)
(* Text that the code parses is a sequence of one-character strings.       *)
(* A pandas DataFrame is [kind |-> "DataFrame", rows |-> <<records>>], a   *)
(* Series is [kind |-> "Series", name |-> column, values |-> <<...>>], and *)
(* a raised exception is [kind |-> <exception class>].  A DataFrame also   *)
(* carries the set of its column labels.                                   *)
(***************************************************************************)
EXTENDS Integers, Sequences, FiniteSets, TLC

VARIABLES
    \* scrape_exchanges
    scrape_pc,        \* "loop" | "returned" | "raised"
    page_number,      \* line 116
    exchanges,        \* line 118: list of per-page DataFrames
    scrape_log,       \* the GET requests issued so far: <<[page, rows]>>
    scrape_out,       \* the returned DataFrame, or the exception raised
    \* filter_top_exchange_addresses
    filter_pc,        \* "call" | "returned" | "reapplied"
    exhanges_df,      \* argument
    min_balance,      \* argument
    min_txn_count,    \* argument
    filter_out,       \* value returned by the call
    refilter_out,     \* value of the function applied to filter_out
    rows_out,         \* exhanges_df[balance_condition & txn_condition]
    rerows_out,       \* the function applied to rows_out
    \* get_txn_history
    txn_pc,           \* "for" | "while" | "returned" | "raised"
    addresses,        \* argument
    offset,           \* argument
    idx,              \* position of the for loop in addresses
    page,             \* line 173
    txns,             \* line 174: list of per-page DataFrames
    txns_by_address,  \* line 171
    txn_log,          \* requests issued and map entries written, in order
    txn_out           \* the returned map, or the exception raised

scrape_vars == <<scrape_pc, page_number, exchanges, scrape_log, scrape_out>>
filter_vars == <<filter_pc, exhanges_df, min_balance, min_txn_count,
                 filter_out, refilter_out, rows_out, rerows_out>>
txn_vars == <<txn_pc, addresses, offset, idx, page, txns, txns_by_address,
              txn_log, txn_out>>
vars == <<scrape_vars, filter_vars, txn_vars>>

None == [kind |-> "None"]

(***************************************************************************)
(* Bounds of the model.                                                    *)
(***************************************************************************)
MaxDataRows == 2      \* rows after the first one on a listing page
MaxScrapePages == 3   \* listing pages with data before the source runs dry
MaxTableRows == 2     \* rows of the table given to the filter
MaxAddrs == 2         \* addresses given to get_txn_history
MaxPages == 3         \* largest number of pages the page sizes tried allow

(***************************************************************************)
(* Generic helpers.                                                        *)
(***************************************************************************)
SeqsUpTo(S, n) == UNION {[1..k -> S] : k \in 0..n}

RECURSIVE Flatten(_)
Flatten(ss) == IF ss = <<>> THEN <<>> ELSE Head(ss) \o Flatten(Tail(ss))

\* pd.concat(frames): ValueError("No objects to concatenate") on an empty
\* list, otherwise the rows of the frames in list order.
pd_concat(frames) ==
    IF frames = <<>>
    THEN [kind |-> "ValueError"]
    ELSE [kind |-> "DataFrame",
          columns |-> UNION {frames[i].columns : i \in 1..Len(frames)},
          rows |-> Flatten([i \in 1..Len(frames) |-> frames[i].rows])]

(***************************************************************************)
(* Record normalisation: _format_exchange_data.                            *)
(***************************************************************************)
Digits == <<"0", "1", "2", "3", "4", "5", "6", "7", "8", "9">>

DigitVal(c) == (CHOOSE i \in 1..10 : Digits[i] = c) - 1

RECURSIVE LStrip(_, _)
LStrip(s, chars) ==
    IF s # <<>> /\ Head(s) \in chars THEN LStrip(Tail(s), chars) ELSE s

RECURSIVE RStrip(_, _)
RStrip(s, chars) ==
    IF s # <<>> /\ s[Len(s)] \in chars
    THEN RStrip(SubSeq(s, 1, Len(s) - 1), chars)
    ELSE s

\* str.strip(chars): drops leading and trailing characters that are in chars
Strip(s, chars) == RStrip(LStrip(s, chars), chars)

\* str.replace(",", "")
RemoveCommas(s) == SelectSeq(s, LAMBDA c : c # ",")

\* float(s) for a string of decimal digits
RECURSIVE Float(_)
Float(s) ==
    IF s = <<>> THEN 0
    ELSE 10 * Float(SubSeq(s, 1, Len(s) - 1)) + DigitVal(s[Len(s)])

EtherChars == {" ", "E", "t", "h", "e", "r"}

ParseBalance(str) == Float(RemoveCommas(Strip(str, EtherChars)))

ParseTxnCount(str) == Float(RemoveCommas(str))

\* rows[1:] mapped positionally to address, name, balance, txn_count
FormatRow(row) ==
    [address |-> row[1], name |-> row[2],
     balance |-> ParseBalance(row[3]), txn_count |-> ParseTxnCount(row[4])]

ExchangeColumns == {"address", "name", "balance", "txn_count"}

_format_exchange_data(rows) ==
    [kind |-> "DataFrame",
     columns |-> ExchangeColumns,
     rows |-> [i \in 1..(Len(rows) - 1) |-> FormatRow(rows[i + 1])]]

(***************************************************************************)
(* The listing pages the source can serve.                                 *)
(***************************************************************************)
HeaderRow == <<>>    \* the header <tr> holds <th> cells only: no <td>

RawRows ==
    { <<"A", "n1", <<"2", ",", "5", "0", "0", " ", "E", "t", "h", "e", "r">>,
                   <<"5", "0", "0", ",", "0", "0", "0">> >>,
      <<"C", "n3", <<"1", "2", ",", "3", "4", "5", " ", "E", "t", "h", "e", "r">>,
                   <<"4", "0", "0", ",", "0", "0", "0">> >> }

\* Every table the page can hold: no <tr> at all, or a header row followed
\* by data rows.
ListingPages ==
    {<<>>} \cup {<<HeaderRow>> \o d : d \in SeqsUpTo(RawRows, MaxDataRows)}

\* The source runs dry: past MaxScrapePages only pages without data remain.
ServedPages(n) ==
    IF n <= MaxScrapePages THEN ListingPages
    ELSE {p \in ListingPages : Len(p) <= 2}

(***************************************************************************)
(* scrape_exchanges.                                                       *)
(***************************************************************************)
ScrapeIdle ==
    /\ scrape_pc = "idle"
    /\ page_number = 0
    /\ exchanges = <<>>
    /\ scrape_log = <<>>
    /\ scrape_out = None

ScrapeInit ==
    /\ scrape_pc = "loop"
    /\ page_number = 1
    /\ exchanges = <<>>
    /\ scrape_log = <<>>
    /\ scrape_out = None

\* Mutant of NoMoreData: a page of two rows is taken to hold data.
NoMoreDataStrict(rows) == Len(rows) < 2

\* line 126: the page holds no data rows
NoMoreData(rows) == Len(rows) <= 2

\* One pass of the `while True` body; on break, the code after the loop.
ScrapePage ==
    /\ scrape_pc = "loop"
    /\ \E rows \in ServedPages(page_number) :
        /\ scrape_log' = Append(scrape_log, [page |-> page_number, rows |-> rows])
        /\ IF NoMoreData(rows)
           THEN /\ scrape_out' = pd_concat(exchanges)
                /\ scrape_pc' = IF scrape_out'.kind = "DataFrame"
                                THEN "returned" ELSE "raised"
                /\ UNCHANGED <<exchanges, page_number>>
           ELSE /\ exchanges' = Append(exchanges, _format_exchange_data(rows))
                /\ page_number' = page_number + 1
                /\ UNCHANGED <<scrape_pc, scrape_out>>
    /\ UNCHANGED <<filter_vars, txn_vars>>

ScrapeNext == ScrapePage

(***************************************************************************)
(* filter_top_exchange_addresses.                                          *)
(***************************************************************************)
DefaultMinBalance == 2000
DefaultMinTxnCount == 400000

\* obj[key] with a column label: a column of a DataFrame; a KeyError when
\* the frame has no such column, or when obj is a Series (whose index holds
\* row positions, not column labels).  An exception propagates.
GetItem(obj, key) ==
    IF obj.kind = "DataFrame"
    THEN IF key \in obj.columns
         THEN [kind |-> "Series", name |-> key,
               values |-> [i \in 1..Len(obj.rows) |-> obj.rows[i][key]]]
         ELSE [kind |-> "KeyError"]
    ELSE IF obj.kind = "Series" THEN [kind |-> "KeyError"]
    ELSE obj

\* Mutant of GreaterThan: the comparison is not strict.
GreaterOrEqual(series, threshold) ==
    IF series.kind = "Series"
    THEN [kind |-> "Series", name |-> series.name,
          values |-> [i \in 1..Len(series.values) |-> series.values[i] >= threshold]]
    ELSE series

\* series > threshold, element by element
GreaterThan(series, threshold) ==
    IF series.kind = "Series"
    THEN [kind |-> "Series", name |-> series.name,
          values |-> [i \in 1..Len(series.values) |-> series.values[i] > threshold]]
    ELSE series

\* mask_a & mask_b
MaskAnd(a, b) ==
    IF a.kind # "Series" THEN a
    ELSE IF b.kind # "Series" THEN b
    ELSE [kind |-> "Series", name |-> a.name,
          values |-> [i \in 1..Len(a.values) |-> a.values[i] /\ b.values[i]]]

RECURSIVE KeepWhere(_, _)
KeepWhere(rows, mask) ==
    IF rows = <<>> THEN <<>>
    ELSE (IF Head(mask) THEN <<Head(rows)>> ELSE <<>>)
         \o KeepWhere(Tail(rows), Tail(mask))

\* Mutant of BoolIndex: the mask is applied one row late.
BoolIndexShifted(df, mask) ==
    IF mask.kind # "Series" THEN mask
    ELSE [kind |-> "DataFrame", columns |-> df.columns,
          rows |-> IF df.rows = <<>> THEN <<>>
                   ELSE KeepWhere(Tail(df.rows),
                                  SubSeq(mask.values, 1, Len(mask.values) - 1))]

\* df[mask]: the rows of df whose mask entry is True, in df's order
BoolIndex(df, mask) ==
    IF mask.kind # "Series" THEN mask
    ELSE [kind |-> "DataFrame", columns |-> df.columns,
          rows |-> KeepWhere(df.rows, mask.values)]

\* exhanges_df[balance_condition & txn_condition] of line 152
SelectedRows(df, mb, mt) ==
    LET balance_condition == GreaterThan(GetItem(df, "balance"), mb)
        txn_condition == GreaterThan(GetItem(df, "txn_count"), mt)
    IN  BoolIndex(df, MaskAnd(balance_condition, txn_condition))

filter_top_exchange_addresses(df, mb, mt) ==
    GetItem(SelectedRows(df, mb, mt), "address")

FilterRecords ==
    [address : {"A", "B"}, name : {"n"},
     balance : {1000, 2000, 2500}, txn_count : {400000, 500000}]

FilterIdle ==
    /\ filter_pc = "idle"
    /\ exhanges_df = None
    /\ min_balance = 0
    /\ min_txn_count = 0
    /\ filter_out = None
    /\ refilter_out = None
    /\ rows_out = None
    /\ rerows_out = None

FilterInit ==
    /\ filter_pc = "call"
    /\ \E rs \in SeqsUpTo(FilterRecords, MaxTableRows) :
         exhanges_df = [kind |-> "DataFrame", columns |-> ExchangeColumns,
                        rows |-> rs]
    /\ min_balance \in {DefaultMinBalance, 1000}
    /\ min_txn_count \in {DefaultMinTxnCount, 500000}
    /\ filter_out = None
    /\ refilter_out = None
    /\ rows_out = None
    /\ rerows_out = None

\* filter_top_exchange_addresses(exhanges_df, min_balance, min_txn_count)
FilterCall ==
    /\ filter_pc = "call"
    /\ filter_out' = filter_top_exchange_addresses(exhanges_df, min_balance,
                                                   min_txn_count)
    /\ rows_out' = SelectedRows(exhanges_df, min_balance, min_txn_count)
    /\ filter_pc' = "returned"
    /\ UNCHANGED <<exhanges_df, min_balance, min_txn_count, refilter_out,
                   rerows_out>>
    /\ UNCHANGED <<scrape_vars, txn_vars>>

\* The function called again with the same thresholds: on the value it
\* returned, and on the rows it selected.
FilterReapply ==
    /\ filter_pc = "returned"
    /\ refilter_out' = filter_top_exchange_addresses(filter_out, min_balance,
                                                     min_txn_count)
    /\ rerows_out' = filter_top_exchange_addresses(rows_out, min_balance,
                                                   min_txn_count)
    /\ filter_pc' = "reapplied"
    /\ UNCHANGED <<exhanges_df, min_balance, min_txn_count, filter_out,
                   rows_out>>
    /\ UNCHANGED <<scrape_vars, txn_vars>>

FilterNext == FilterCall \/ FilterReapply

(***************************************************************************)
(* get_txn_history.                                                        *)
(***************************************************************************)
CAP == 10000
DefaultOffset == 5000

AddressPool == {"A", "B"}

OffsetCandidates == {2000, 2500, 3000, DefaultOffset, CAP, CAP + 1}

\* The page sizes tried: those that allow at most MaxPages pages.
Offsets == {o \in OffsetCandidates : CAP \div o <= MaxPages}

Statuses == {"0", "1"}

\* response.json()['result'] of a successful call
Payloads == { <<[hash |-> "t1"]>>, <<[hash |-> "t2"], [hash |-> "t3"]>> }

\* pd.DataFrame(result)
DataFrame(result) ==
    [kind |-> "DataFrame",
     columns |-> UNION {DOMAIN result[i] : i \in 1..Len(result)},
     rows |-> result]

RequestEntry(pos, address, pg, status, result) ==
    [type |-> "request", pos |-> pos, address |-> address, page |-> pg,
     status |-> status, result |-> result]

WriteEntry(pos, address, table) ==
    [type |-> "write", pos |-> pos, address |-> address, page |-> 0,
     status |-> "-", result |-> table.rows]

TxnIdle ==
    /\ txn_pc = "idle"
    /\ addresses = <<>>
    /\ offset = 0
    /\ idx = 0
    /\ page = 0
    /\ txns = <<>>
    /\ txns_by_address = <<>>
    /\ txn_log = <<>>
    /\ txn_out = None

TxnInit ==
    /\ txn_pc = "for"
    /\ addresses \in SeqsUpTo(AddressPool, MaxAddrs)
    /\ offset \in Offsets
    /\ idx = 1
    /\ page = 0
    /\ txns = <<>>
    /\ txns_by_address = <<>>
    /\ txn_log = <<>>
    /\ txn_out = None

\* Mutant of WithinCap: the cap is tested against the pages already fetched.
WithinCapStale(pg, off) == (pg - 1) * off <= CAP

\* line 175: the loop condition
WithinCap(pg, off) == pg * off <= CAP

\* Mutant of Finalize: the entry is not stored under the address.
FinalizeNoWrite(log) ==
    LET table == pd_concat(txns)
    IN  IF table.kind = "DataFrame"
        THEN /\ txn_log' = log
             /\ idx' = idx + 1
             /\ txn_pc' = "for"
             /\ UNCHANGED <<txns_by_address, txn_out>>
        ELSE /\ txn_out' = table
             /\ txn_pc' = "raised"
             /\ txn_log' = log
             /\ UNCHANGED <<txns_by_address, idx>>

\* line 184, reached when the while loop ends: the pages are concatenated
\* and stored under the address; pd.concat raises on an empty list.
Finalize(log) ==
    LET table == pd_concat(txns)
        address == addresses[idx]
    IN  IF table.kind = "DataFrame"
        THEN /\ txns_by_address' =
                   [a \in DOMAIN txns_by_address \cup {address} |->
                       IF a = address THEN table ELSE txns_by_address[a]]
             /\ txn_log' = Append(log, WriteEntry(idx, address, table))
             /\ idx' = idx + 1
             /\ txn_pc' = "for"
             /\ UNCHANGED txn_out
        ELSE /\ txn_out' = table
             /\ txn_pc' = "raised"
             /\ txn_log' = log
             /\ UNCHANGED <<txns_by_address, idx>>

\* Mutant of TxnFor: the list of pages is not emptied for the next address.
TxnForKeepPages ==
    /\ txn_pc = "for"
    /\ IF idx <= Len(addresses)
       THEN /\ page' = 1
            /\ txn_pc' = "while"
            /\ UNCHANGED <<txns, txn_out>>
       ELSE /\ txn_out' = txns_by_address
            /\ txn_pc' = "returned"
            /\ UNCHANGED <<page, txns>>
    /\ UNCHANGED <<addresses, offset, idx, txns_by_address, txn_log>>
    /\ UNCHANGED <<scrape_vars, filter_vars>>

\* lines 172-174 and 185: the next address starts with page 1 and no pages,
\* or the map is returned
TxnFor ==
    /\ txn_pc = "for"
    /\ IF idx <= Len(addresses)
       THEN /\ page' = 1
            /\ txns' = <<>>
            /\ txn_pc' = "while"
            /\ UNCHANGED txn_out
       ELSE /\ txn_out' = txns_by_address
            /\ txn_pc' = "returned"
            /\ UNCHANGED <<page, txns>>
    /\ UNCHANGED <<addresses, offset, idx, txns_by_address, txn_log>>
    /\ UNCHANGED <<scrape_vars, filter_vars>>

\* lines 175-183: one pass of the while body; on break, line 184
TxnRequest ==
    /\ txn_pc = "while"
    /\ WithinCap(page, offset)
    /\ \E status \in Statuses :
         IF status # "1"
         THEN /\ Finalize(Append(txn_log,
                    RequestEntry(idx, addresses[idx], page, status, <<>>)))
              /\ UNCHANGED <<page, txns>>
         ELSE \E result \in Payloads :
              /\ txn_log' = Append(txn_log,
                    RequestEntry(idx, addresses[idx], page, status, result))
              /\ txns' = Append(txns, DataFrame(result))
              /\ page' = page + 1
              /\ UNCHANGED <<txn_pc, idx, txns_by_address, txn_out>>
    /\ UNCHANGED <<addresses, offset>>
    /\ UNCHANGED <<scrape_vars, filter_vars>>

\* line 175 false: the while loop ends, then line 184
TxnHardStop ==
    /\ txn_pc = "while"
    /\ ~WithinCap(page, offset)
    /\ Finalize(txn_log)
    /\ UNCHANGED <<page, txns, addresses, offset>>
    /\ UNCHANGED <<scrape_vars, filter_vars>>

TxnNext == TxnFor \/ TxnRequest \/ TxnHardStop

(***************************************************************************)
(* Specifications: one per operation.                                      *)
(***************************************************************************)
ScrapeSpecInit == ScrapeInit /\ FilterIdle /\ TxnIdle

ScrapeSpec == ScrapeSpecInit /\ [][ScrapeNext]_vars

FilterSpecInit == ScrapeIdle /\ FilterInit /\ TxnIdle

FilterSpec == FilterSpecInit /\ [][FilterNext]_vars

TxnSpecInit == ScrapeIdle /\ FilterIdle /\ TxnInit

TxnSpec == TxnSpecInit /\ [][TxnNext]_vars

\* The calls are sequential code: a step that can be taken is taken.
TxnFairSpec == TxnSpec /\ WF_vars(TxnNext)

(***************************************************************************)
(* Properties of scrape_exchanges.                                         *)
(***************************************************************************)
Range(f) == {f[i] : i \in DOMAIN f}

\* The records of one fetched page: every row after the first, in order.
DataRowsOf(rows) ==
    [j \in 1..(Len(rows) - 1) |-> FormatRow(rows[j + 1])]

\* C4: the pages requested are 1, 2, ... in that order; every page before
\* the last one requested yielded more than 2 rows; once a page yields <= 2
\* rows no further request is issued; and the table returned holds exactly
\* the data rows of the pages before that one, page by page, in page order.
C4_StopsAtFirstShortPage ==
    LET n == Len(scrape_log) IN
    /\ \A i \in 1..n : scrape_log[i].page = i
    /\ \A i \in 1..(n - 1) : Len(scrape_log[i].rows) > 2
    /\ scrape_pc = "loop" => \A i \in 1..n : Len(scrape_log[i].rows) > 2
    /\ scrape_pc # "loop" => n >= 1 /\ Len(scrape_log[n].rows) <= 2
    /\ scrape_pc = "returned" =>
          /\ scrape_out.kind = "DataFrame"
          /\ scrape_out.rows =
                Flatten([i \in 1..(n - 1) |-> DataRowsOf(scrape_log[i].rows)])

\* Three pages with data, then a page of 2 rows: 4 requests, 3 pages' rows.
C4_Witness ==
    /\ scrape_pc = "returned"
    /\ Len(scrape_log) = 4
    /\ Len(scrape_log[4].rows) = 2
    /\ Len(scrape_out.rows) = 6

\* C5: a page with <= 2 rows, whichever page it is, ends the operation by
\* returning the table accumulated so far; nothing is raised.
C5_ShortPageReturnsTable ==
    \A i \in 1..Len(scrape_log) :
        Len(scrape_log[i].rows) <= 2 =>
            scrape_pc = "returned" /\ scrape_out.kind = "DataFrame"

(***************************************************************************)
(* Properties of filter_top_exchange_addresses.                            *)
(***************************************************************************)
ExampleRows ==
    << [address |-> "A", name |-> "n", balance |-> 2500, txn_count |-> 500000],
       [address |-> "B", name |-> "n", balance |-> 1000, txn_count |-> 500000] >>

PassesBoth(r) == r.balance > min_balance /\ r.txn_count > min_txn_count

\* C7: the value returned is the addresses, in table order, of exactly the
\* rows with balance > min_balance and txn_count > min_txn_count, both
\* strict; the example records with the default thresholds give <<"A">>.
C7_FilterIsStrictConjunction ==
    filter_pc # "call" =>
        /\ filter_out.kind = "Series"
        /\ LET kept == SelectSeq(exhanges_df.rows, PassesBoth)
           IN  filter_out.values = [i \in 1..Len(kept) |-> kept[i].address]
        /\ ( /\ exhanges_df.rows = ExampleRows
             /\ min_balance = DefaultMinBalance
             /\ min_txn_count = DefaultMinTxnCount )
           => filter_out.values = <<"A">>

\* A table with a row equal to a threshold and a row above both, filtered.
C7_Witness ==
    /\ filter_pc = "returned"
    /\ Len(exhanges_df.rows) = 2
    /\ exhanges_df.rows[1].balance = min_balance
    /\ exhanges_df.rows[1].txn_count > min_txn_count
    /\ PassesBoth(exhanges_df.rows[2])
    /\ filter_out.values = <<exhanges_df.rows[2].address>>

\* C8 as stated: the function applied to the value it returned gives the
\* same set of addresses.
C8_IdempotentOnOwnOutput ==
    filter_pc = "reapplied" =>
        /\ refilter_out.kind = "Series"
        /\ Range(refilter_out.values) = Range(filter_out.values)

\* C8 as amended: the function applied to the rows it selected (the records
\* that passed, fields unchanged) returns the same addresses in the same
\* order.
C8_IdempotentOnSelectedRows ==
    filter_pc = "reapplied" => rerows_out = filter_out

C8_Witness ==
    /\ filter_pc = "reapplied"
    /\ rerows_out.kind = "Series"
    /\ Len(rerows_out.values) = 1
    /\ Len(exhanges_df.rows) = 2
    /\ refilter_out.kind = "KeyError"

(***************************************************************************)
(* Properties of get_txn_history.                                          *)
(***************************************************************************)
LogIdx == 1..Len(txn_log)

RequestsAt(pos) ==
    SelectSeq(txn_log, LAMBDA e : e.type = "request" /\ e.pos = pos)

Results(entries) == Flatten([i \in 1..Len(entries) |-> entries[i].result])

\* C1: when the first response for an address has a status other than "1",
\* no further request is issued for it and an empty table is stored for it.
C1_FirstFailureGivesEmptyTable ==
    \A k \in LogIdx :
        LET e == txn_log[k] IN
        (e.type = "request" /\ e.page = 1 /\ e.status # "1") =>
            /\ Len(RequestsAt(e.pos)) = 1
            /\ e.address \in DOMAIN txns_by_address
            /\ \E j \in LogIdx :
                  /\ j > k
                  /\ txn_log[j].type = "write"
                  /\ txn_log[j].pos = e.pos
                  /\ txn_log[j].result = <<>>

\* C2: a failure status on any page is never fatal: nothing is raised, and
\* the map returned has an entry for every input address.
C2_FailureIsSoftStop ==
    (\E k \in LogIdx : txn_log[k].type = "request" /\ txn_log[k].status # "1")
    => /\ txn_pc # "raised"
       /\ txn_pc = "returned" => DOMAIN txn_out = Range(addresses)

\* C3: no request has page * offset > 10000; with offset = 5000 at most 2
\* requests are issued per address and page 3 is never requested.
C3_CapNeverExceeded ==
    /\ \A k \in LogIdx :
          txn_log[k].type = "request" => txn_log[k].page * offset <= CAP
    /\ offset = DefaultOffset =>
          /\ \A pos \in 1..Len(addresses) : Len(RequestsAt(pos)) <= 2
          /\ \A k \in LogIdx : txn_log[k].page < 3

C3_Witness ==
    /\ txn_pc = "returned"
    /\ offset = DefaultOffset
    /\ Len(RequestsAt(1)) = 2
    /\ RequestsAt(1)[2].status = "1"

\* C6: paging for an address ends after finitely many requests: the
\* requests issued for an address never number more than 10000 \div offset,
\* they are pages 1, 2, ... without repetition, and the call comes to an end.
C6_PagingTerminates ==
    /\ [](\A pos \in 1..Len(addresses) :
            LET rs == RequestsAt(pos) IN
            /\ Len(rs) * offset <= CAP
            /\ \A i \in 1..Len(rs) : rs[i].page = i)
    /\ <>(txn_pc \in {"returned", "raised"})

\* One address stopped by a failure status, the next by the cap.
C6_Witness ==
    /\ txn_pc = "returned"
    /\ Len(addresses) = 2
    /\ LET r1 == RequestsAt(1)
           r2 == RequestsAt(2)
       IN  /\ Len(r1) >= 2
           /\ r1[Len(r1)].status # "1"
           /\ Len(r2) >= 2
           /\ r2[Len(r2)].status = "1"
           /\ (Len(r2) + 1) * offset > CAP

\* C9 as stated: the table stored for an address holds, in fetch order, the
\* pages of every response with status "1" for that address.
C9_TableIsAllSuccessfulPages ==
    txn_pc = "returned" =>
        \A a \in DOMAIN txn_out :
            txn_out[a].rows =
                Results(SelectSeq(txn_log, LAMBDA e :
                    e.type = "request" /\ e.address = a /\ e.status = "1"))

\* Position in the input of the pass that last wrote the entry of address a.
LastWritePos(a) ==
    LET ws == {k \in LogIdx : txn_log[k].type = "write" /\ txn_log[k].address = a}
    IN  txn_log[CHOOSE k \in ws : \A j \in ws : j <= k].pos

\* C9 as amended: the table stored for an address holds, in fetch order,
\* exactly the pages of the responses with status "1" received during the
\* pass over the input position that last wrote the entry; the map returned
\* is the map so built.
C9_TableIsLastPassPages ==
    /\ \A a \in DOMAIN txns_by_address :
          LET p == LastWritePos(a) IN
          /\ addresses[p] = a
          /\ txns_by_address[a].rows =
                Results(SelectSeq(txn_log, LAMBDA e :
                    e.type = "request" /\ e.pos = p /\ e.status = "1"))
    /\ txn_pc = "returned" => txn_out = txns_by_address

\* Two pages kept before a failure status, for an address given twice.
C9_Witness ==
    /\ txn_pc = "returned"
    /\ Len(addresses) = 2
    /\ addresses[1] = addresses[2]
    /\ Len(RequestsAt(1)) >= 1
    /\ LET r2 == RequestsAt(2)
       IN  /\ Len(r2) = 3
           /\ r2[3].status # "1"
           /\ Len(txn_out[addresses[2]].rows) >= 2

\* C10: every request for an earlier position, and the write of its entry,
\* comes before the first request for a later position.
C10_NoInterleaving ==
    /\ \A m, n \in LogIdx :
          (txn_log[n].type = "request" /\ txn_log[m].pos < txn_log[n].pos)
          => m < n
    /\ \A n \in LogIdx :
          txn_log[n].type = "request" =>
              \A i \in 1..(txn_log[n].pos - 1) :
                  \E m \in 1..(n - 1) :
                      txn_log[m].type = "write" /\ txn_log[m].pos = i
    /\ txn_pc = "while" =>
          \A i \in 1..(idx - 1) : addresses[i] \in DOMAIN txns_by_address

C10_Witness ==
    /\ txn_pc = "returned"
    /\ Len(addresses) = 2
    /\ addresses[1] # addresses[2]
    /\ Len(RequestsAt(1)) >= 2
    /\ Len(RequestsAt(2)) >= 2

====
